---- MODULE Spec2Model ----
(***************************************************************************)
(* A model of the recurring scan pipeline of threatwatch: the Celery beat  *)
(* tick (scan_all_due_monitors_task), the per-monitor scan task with its   *)
(* retry wrapper (scan_monitor_task), the scan engine                      *)
(* (MonitorEngine.scan_monitor), the monitor store (MonitorService) and    *)
(* the alert store (AlertService).                                         *)
(*                                                                         *)
(* Time is counted in units of the beat interval (5 minutes, the crontab   *)
(* of celery_app.py:161).  Optional values (Optional[datetime], an         *)
(* optional alert) are sets with at most one element.  Strings whose       *)
(* letters matter (lower(), substring tests) are tuples of one-letter      *)
(* strings.                                                                *)
(***************************************************************************)
EXTENDS Integers, Sequences, FiniteSets, TLC

VARIABLES
    now,        \* datetime.now(timezone.utc), in beat intervals
    lastTick,   \* the time of the latest beat tick
    monitors,   \* db.monitors: monitor id -> document (the domain is what is stored)
    alerts,     \* db.alerts: a set of documents, each with its own id
    history,    \* db.alert_history: a set of documents, each with its own id
    tasks,      \* the scan_monitor_task messages, by dispatch number
    nextTask,   \* the number of the next dispatch
    calls,      \* AlertService.create_alert calls in progress, by caller
    sinceDue,   \* per monitor: scans the ticks started since next_scan was last written
    userOps,    \* the number of user requests made
    eng,        \* one application of MonitorEngine.scan_monitor to chosen inputs
    crashes,    \* the number of times a worker process has died
    response    \* the last request: who asked, for what, and what was answered

vars == <<now, lastTick, monitors, alerts, history, tasks, nextTask, calls,
          sinceDue, userOps, eng, crashes, response>>

----------------------------------------------------------------------------
(* Bounds of the model *)

MaxTime == 3
MaxDispatch == 2
MaxUserOps == 1
MaxCrashes == 1
MaxRequests == 2

(* Program constants, in beat intervals of 300 seconds *)

MAX_RETRIES == 3
RetryDelay == 1
Hour == 12
Day == 288
Week == 2016
DedupHours == 24

MonitorIds == {"m1", "m2"}
UserIds == {"u1", "u2"}
TaskIds == 1..MaxDispatch
CallerIds == {1, 2}
Titles == {"T1", "t1"}
Order == <<"m1", "m2">>


----------------------------------------------------------------------------
(* Strings whose letters matter: tuples of one-letter strings *)

Uppers == <<"A", "B", "C", "D", "E", "F", "G", "H", "I", "J", "K", "L", "M",
            "N", "O", "P", "Q", "R", "S", "T", "U", "V", "W", "X", "Y", "Z">>
Lowers == <<"a", "b", "c", "d", "e", "f", "g", "h", "i", "j", "k", "l", "m",
            "n", "o", "p", "q", "r", "s", "t", "u", "v", "w", "x", "y", "z">>

\* str.lower(), letter by letter
lower(s) ==
    [i \in DOMAIN s |->
        IF \E k \in DOMAIN Uppers : Uppers[k] = s[i]
        THEN Lowers[CHOOSE k \in DOMAIN Uppers : Uppers[k] = s[i]]
        ELSE s[i]]

\* needle in hay (Python's substring test)
contains(needle, hay) ==
    \E i \in 0..(Len(hay) - Len(needle)) :
        \A j \in 1..Len(needle) : hay[i + j] = needle[j]

----------------------------------------------------------------------------
(* MonitorService: scheduling arithmetic *)

\* A schedule that brings weekly monitors back after a day
calculate_next_scan_weekly_as_daily(frequency, t) ==
    IF frequency = "hourly" THEN t + Hour ELSE t + Day

\* A schedule that adds no interval
calculate_next_scan_no_interval(frequency, t) == t

\* MonitorService._calculate_next_scan
calculate_next_scan(frequency, t) ==
    IF frequency = "hourly" THEN t + Hour
    ELSE IF frequency = "daily" THEN t + Day
    ELSE IF frequency = "weekly" THEN t + Week
    ELSE t + Day

\* A query that finds only the monitors falling due at this very time
get_due_monitors_exact(store, t) ==
    {m \in DOMAIN store :
        /\ store[m].active
        /\ \E ns \in store[m].next_scan : ns = t}

\* A query that gives up on monitors more than an hour overdue
get_due_monitors_recent(store, t) ==
    {m \in DOMAIN store :
        /\ store[m].active
        /\ \E ns \in store[m].next_scan : ns <= t /\ ns > t - Hour}

\* A query that yields one due monitor at a time, the first in Order
get_due_monitors_first(store, t) ==
    LET due == {m \in DOMAIN store :
                   /\ store[m].active
                   /\ \E ns \in store[m].next_scan : ns <= t}
    IN  {m \in due : m = Order[1] \/ Order[1] \notin due}

\* The query of MonitorService.get_due_monitors on a store and a time
get_due_monitors(store, t) ==
    {m \in DOMAIN store :
        /\ store[m].active
        /\ \E ns \in store[m].next_scan : ns <= t}

----------------------------------------------------------------------------
(* MonitorEngine *)

SeverityLevels == {"low", "medium", "high", "critical"}

\* A parser that matches the level names as written, capitals included
parse_severity_case_sensitive(severity_str) ==
    IF severity_str = <<"l", "o", "w">> THEN "low"
    ELSE IF severity_str = <<"m", "e", "d", "i", "u", "m">> THEN "medium"
    ELSE IF severity_str = <<"h", "i", "g", "h">> THEN "high"
    ELSE IF severity_str = <<"c", "r", "i", "t", "i", "c", "a", "l">>
         THEN "critical"
    ELSE "medium"

\* MonitorEngine._parse_severity: the analyzer's string to a SeverityLevel
parse_severity(severity_str) ==
    LET l == lower(severity_str) IN
    IF l = <<"l", "o", "w">> THEN "low"
    ELSE IF l = <<"m", "e", "d", "i", "u", "m">> THEN "medium"
    ELSE IF l = <<"h", "i", "g", "h">> THEN "high"
    ELSE IF l = <<"c", "r", "i", "t", "i", "c", "a", "l">> THEN "critical"
    ELSE "medium"

\* severity_rank of MonitorEngine._meets_threshold, with .get(x, 0)
severity_rank(s) ==
    CASE s = "low" -> 1
      [] s = "medium" -> 2
      [] s = "high" -> 3
      [] s = "critical" -> 4
      [] OTHER -> 0

\* A gate that lets the level just below the threshold through
meets_threshold_off_by_one(severity, threshold) ==
    severity_rank(severity) + 1 >= severity_rank(threshold)

\* MonitorEngine._meets_threshold
meets_threshold(severity, threshold) ==
    severity_rank(severity) >= severity_rank(threshold)

RECURSIVE filter_from(_, _, _, _)
\* The loop of MonitorEngine._filter_articles from article i on
filter_from(articles, exclude_keywords, i, seen_urls) ==
    IF i > Len(articles) THEN <<>>
    ELSE
        LET a == articles[i]
            exclude == \E k \in DOMAIN exclude_keywords :
                          \/ contains(lower(exclude_keywords[k]), lower(a.title))
                          \/ contains(lower(exclude_keywords[k]), lower(a.snippet))
        IN  IF a.url \in seen_urls THEN
                filter_from(articles, exclude_keywords, i + 1, seen_urls)
            ELSE IF Len(a.snippet) < 50 THEN
                filter_from(articles, exclude_keywords, i + 1, seen_urls)
            ELSE IF exclude THEN
                filter_from(articles, exclude_keywords, i + 1, seen_urls)
            ELSE <<a>> \o filter_from(articles, exclude_keywords, i + 1,
                                      seen_urls \cup {a.url})

\* A filter that also returns the later articles of a URL it has kept
filter_articles_keeps_duplicates(articles, monitor) ==
    filter_from(articles, monitor.exclude_keywords, 1, {}) \o
    SelectSeq(articles,
              LAMBDA a : \E i, j \in DOMAIN articles :
                            i < j /\ articles[j] = a /\ articles[i].url = a.url
                            /\ Len(a.snippet) >= 50)

\* MonitorEngine._filter_articles
filter_articles(articles, monitor) ==
    filter_from(articles, monitor.exclude_keywords, 1, {})

\* MonitorEngine._analyze_with_llm on the analyzer's reply.  The reply is the
\* collaborator's: "error" (the call raised or timed out), "text" (no {...} in
\* the content), "badjson" (a {...} that json.loads rejects) or "json" (a
\* parsed object, whose severity and title may be absent).
analyze_with_llm(monitor, articles, llm) ==
    IF llm.kind \in {"error", "badjson"} THEN
        [success |-> FALSE, severity |-> {}, title |-> {},
         input_tokens |-> 0, output_tokens |-> 0]
    ELSE IF llm.kind = "text" THEN
        [success |-> TRUE,
         severity |-> {<<"m", "e", "d", "i", "u", "m">>},
         title |-> {"Threats detected for " \o monitor.term},
         input_tokens |-> llm.input_tokens,
         output_tokens |-> llm.output_tokens]
    ELSE
        [success |-> TRUE, severity |-> llm.severity, title |-> llm.title,
         input_tokens |-> llm.input_tokens,
         output_tokens |-> llm.output_tokens]

\* MonitorEngine._create_alert_from_analysis: the AlertModel, or nothing when
\* building it raised (a date that datetime.fromisoformat rejects)
create_alert_from_analysis(monitor, articles, analysis, severity, t) ==
    LET n == IF Len(articles) < 10 THEN Len(articles) ELSE 10
        sources == SubSeq(articles, 1, n)
    IN  IF \E i \in DOMAIN sources : sources[i].date = "bad" THEN {}
        ELSE {[monitor_id |-> monitor.id,
               user_id |-> monitor.user_id,
               title |-> IF analysis.title = {}
                         THEN "Threat detected: " \o monitor.term
                         ELSE CHOOSE x \in analysis.title : TRUE,
               severity |-> severity,
               source_count |-> Len(sources),
               status |-> "new",
               created_at |-> t]}

\* self.cost_tracker._calculate_cost(...).  CostTracker in this repository
\* defines no such method, so "raise" (AttributeError) is what the call as
\* written does; "ok" is the answer of a tracker that has it, priced here at
\* one unit per token.
calculate_cost(tracker, input_tokens, output_tokens) ==
    IF tracker = "raise" THEN [raised |-> TRUE, value |-> 0]
    ELSE [raised |-> FALSE, value |-> input_tokens + output_tokens]

\* AlertHistoryModel(monitor_id=..., scan_timestamp=scan_start)
new_history(monitor, scan_start) ==
    [monitor_id |-> monitor.id,
     scan_timestamp |-> scan_start,
     articles_processed |-> 0,
     alerts_generated |-> 0,
     success |-> TRUE,
     errors |-> <<>>,
     google_search_queries |-> 0,
     llm_input_tokens |-> 0,
     llm_output_tokens |-> 0,
     total_cost |-> 0]

\* A failure that marks the record failed without saying why
failed_scan_silent(h, msg) ==
    [alert |-> {}, history |-> [h EXCEPT !.success = FALSE]]

\* A failure that leaves scan_monitor as an exception, with no record
failed_scan_raises(h, msg) == [raised |-> msg]

\* history.success = False; history.errors.append(msg); return None, history
failed_scan(h, msg) ==
    [alert |-> {},
     history |-> [h EXCEPT !.success = FALSE, !.errors = Append(@, msg)]]

\* A return that forgets the articles counted
no_alert_uncounted(h) ==
    [alert |-> {}, history |-> [h EXCEPT !.articles_processed = 0]]

\* return None, history
no_alert(h) == [alert |-> {}, history |-> h]

\* MonitorEngine.scan_monitor, started at scan_start and returning at t (the
\* record's scan_duration, which nothing reads, is left out).
\* search is the outcome of self.google_client.search_news(...): "raise",
\* "fail" (success false) or "ok" with its articles.  GoogleCustomSearchClient
\* in this repository defines no search_news, so "raise" is what the call as
\* written does; the other outcomes are those the call site handles.
scan_monitor(monitor, search, llm, tracker, scan_start, t) ==
    LET h0 == new_history(monitor, scan_start) IN
    IF search.kind = "raise" THEN failed_scan(h0, "exception")
    ELSE IF search.kind = "fail" THEN
        failed_scan(h0, "Google search failed")
    ELSE
    LET articles == search.articles
        h1 == [h0 EXCEPT !.articles_processed = Len(articles),
                         !.google_search_queries = 1]
    IN
    IF Len(articles) = 0 THEN no_alert(h1)
    ELSE
    LET relevant_articles == filter_articles(articles, monitor) IN
    IF Len(relevant_articles) = 0 THEN no_alert(h1)
    ELSE
    LET analysis_result == analyze_with_llm(monitor, relevant_articles, llm) IN
    IF ~analysis_result.success THEN
        failed_scan(h1, "AI analysis failed")
    ELSE
    LET h2 == [h1 EXCEPT !.llm_input_tokens = analysis_result.input_tokens,
                         !.llm_output_tokens = analysis_result.output_tokens]
        severity == parse_severity(
                        IF analysis_result.severity = {} THEN <<"l", "o", "w">>
                        ELSE CHOOSE x \in analysis_result.severity : TRUE)
    IN
    IF ~meets_threshold(severity, monitor.severity_threshold) THEN
        no_alert(h2)
    ELSE
    LET alert == create_alert_from_analysis(monitor, relevant_articles,
                                            analysis_result, severity, t)
        h3 == IF alert # {} THEN [h2 EXCEPT !.alerts_generated = 1] ELSE h2
        llm_cost == calculate_cost(tracker, h3.llm_input_tokens,
                                   h3.llm_output_tokens)
    IN
    IF llm_cost.raised THEN failed_scan(h3, "exception")
    ELSE [alert |-> alert,
          history |-> [h3 EXCEPT !.total_cost =
                                     h3.google_search_queries + llm_cost.value,
                                 !.success = TRUE]]

----------------------------------------------------------------------------
(* Inputs *)

\* A snippet of n letters
Pad(n) == [i \in 1..n |-> "x"]

GoodArticle(url) ==
    [url |-> url, title |-> <<"n", "e", "w", "s">>, snippet |-> Pad(50),
     date |-> "iso"]

Reply(kind, severity, title) ==
    [kind |-> kind, severity |-> severity, title |-> title,
     input_tokens |-> 1, output_tokens |-> 1]

NoReply == Reply("error", {}, {})

\* What the collaborators answer to the scans of the pipeline
ScanInputs ==
    { [search |-> [kind |-> "raise", articles |-> <<>>], llm |-> NoReply,
       cost |-> "raise"],
      [search |-> [kind |-> "ok", articles |-> <<GoodArticle("a")>>],
       llm |-> Reply("json", {<<"l", "o", "w">>}, {"T1"}), cost |-> "raise"],
      [search |-> [kind |-> "ok", articles |-> <<GoodArticle("a")>>],
       llm |-> Reply("json", {<<"h", "i", "g", "h">>}, {"T1"}),
       cost |-> "ok"] }

----------------------------------------------------------------------------
(* The stores *)

\* A monitor stored as MonitorModel builds it, next_scan left at its default
new_monitor_unscheduled(id, user_id, frequency, severity_threshold, t) ==
    [id |-> id, user_id |-> user_id, term |-> "ransomware",
     exclude_keywords |-> <<>>,
     frequency |-> frequency, severity_threshold |-> severity_threshold,
     active |-> TRUE, last_scan |-> {}, next_scan |-> {},
     scan_count |-> 0, alert_count |-> 0]

\* MonitorModel(...) as MonitorService.create_monitor stores it at time t
new_monitor(id, user_id, frequency, severity_threshold, t) ==
    [id |-> id, user_id |-> user_id, term |-> "ransomware",
     exclude_keywords |-> <<>>,
     frequency |-> frequency, severity_threshold |-> severity_threshold,
     active |-> TRUE, last_scan |-> {},
     next_scan |-> {calculate_next_scan(frequency, t)},
     scan_count |-> 0, alert_count |-> 0]

\* An update that leaves the schedule as it was
update_scan_status_keeps_schedule(store, monitor_id, scan_timestamp, next_scan, increment_alert_count) ==
    IF monitor_id \in DOMAIN store
    THEN [store EXCEPT ![monitor_id].last_scan = {scan_timestamp},
                       ![monitor_id].scan_count = @ + 1,
                       ![monitor_id].alert_count = @ + increment_alert_count]
    ELSE store

\* MonitorService.update_scan_status: update_one({"id": monitor_id}, ...)
update_scan_status(store, monitor_id, scan_timestamp, next_scan, increment_alert_count) ==
    IF monitor_id \in DOMAIN store
    THEN [store EXCEPT ![monitor_id].last_scan = {scan_timestamp},
                       ![monitor_id].next_scan = {next_scan},
                       ![monitor_id].scan_count = @ + 1,
                       ![monitor_id].alert_count = @ + increment_alert_count]
    ELSE store

\* since = now - timedelta(hours=hours), in beat intervals
since_hours(t, hours) == t - hours * Hour

\* A duplicate check that ignores the monitor
is_duplicate_alert_any_monitor(store, user_id, monitor_id, title, hours, t) ==
    \E a \in store :
        /\ a.user_id = user_id
        /\ a.title = title
        /\ a.created_at >= since_hours(t, hours)

\* AlertService._is_duplicate_alert: the find_one on db.alerts at time t
is_duplicate_alert(store, user_id, monitor_id, title, hours, t) ==
    \E a \in store :
        /\ a.user_id = user_id
        /\ a.monitor_id = monitor_id
        /\ a.title = title
        /\ a.created_at >= since_hours(t, hours)

----------------------------------------------------------------------------
(* The task messages *)

NoTask ==
    [pc |-> "none", monitor_id |-> "m1", retries |-> 0, eta |-> 0,
     monitor |-> {}, scan_start |-> 0, result |-> "none", executions |-> 0]

\* scan_monitor_task.delay(monitor_id) at time t
delay(monitor_id, t) ==
    [NoTask EXCEPT !.pc = "queued", !.monitor_id = monitor_id, !.eta = t]

\* A retry wrapper that allows one retry more
retry_allowed_one_more(retries) == retries <= MAX_RETRIES

\* Task.retry with max_retries=3: a retry is scheduled unless
\* request.retries + 1 exceeds max_retries
retry_allowed(retries) == retries + 1 <= MAX_RETRIES

\* The except branch of scan_monitor_task at time t: self.retry(exc=e), which
\* re-queues the task after default_retry_delay or, with the retries used up,
\* ends the task failed
on_exception(task, t) ==
    IF retry_allowed(task.retries)
    THEN [task EXCEPT !.pc = "queued", !.retries = @ + 1,
                      !.eta = t + RetryDelay, !.monitor = {}]
    ELSE [task EXCEPT !.pc = "done", !.result = "failed", !.monitor = {}]

----------------------------------------------------------------------------
(* The initial states: m1 is hourly and three hours overdue; m2 is daily,     *)
(* due now, and active or paused; one alert of m1 is exactly 24 hours old.   *)

\* The answer to a request of user_id on a monitor or an alert: "ok" or
\* "not_found" (HTTP 404)
Answer(user_id, kind, target, code) ==
    [user_id |-> user_id, kind |-> kind, target |-> target, code |-> code]

NoResponse == Answer("none", "none", "none", "none")

NoCall ==
    [pc |-> "idle", monitor_id |-> "m1", user_id |-> "u1", title |-> "T1",
     created_at |-> 0, result |-> "none"]

NoEng == [input |-> {}, output |-> {}]

InitStores ==
    /\ now = 0
    /\ lastTick = -1
    /\ \E active \in BOOLEAN :
          monitors = [m \in MonitorIds |->
                        IF m = "m1"
                        THEN new_monitor("m1", "u1", "hourly", "medium", -4 * Hour)
                        ELSE [new_monitor("m2", "u2", "daily", "high", -Day)
                                EXCEPT !.active = active]]
    /\ alerts = {[id |-> <<"init", 0, 0>>, monitor_id |-> "m1",
                  user_id |-> "u1", title |-> "T1", severity |-> "high",
                  source_count |-> 1, status |-> "new", created_at |-> -Day]}
    /\ history = {}
    /\ tasks = [t \in TaskIds |-> NoTask]
    /\ nextTask = 1
    /\ calls = [c \in CallerIds |-> NoCall]
    /\ sinceDue = [m \in MonitorIds |-> 0]
    /\ userOps = 0
    /\ crashes = 0
    /\ response = NoResponse

Init == InitStores /\ eng = NoEng

----------------------------------------------------------------------------
(* The scheduled pipeline *)

\* The dispatch budget of the model allows the tick of this interval
CanTick ==
    nextTask + Cardinality(get_due_monitors(monitors, now)) <= MaxDispatch + 1

\* Five minutes pass, once beat has run the tick of this interval
AdvanceTime ==
    /\ now < MaxTime
    /\ lastTick = now \/ ~CanTick
    /\ now' = now + 1
    /\ UNCHANGED <<lastTick, monitors, alerts, history, tasks, nextTask, calls,
                   sinceDue, userOps, eng, crashes, response>>

\* scan_all_due_monitors_task, run by beat once per interval: one
\* scan_monitor_task.delay(monitor.id) for every due monitor
Tick ==
    LET due == get_due_monitors(monitors, now)
        dueSeq == SelectSeq(Order, LAMBDA m : m \in due)
    IN  /\ lastTick < now
        /\ CanTick
        /\ lastTick' = now
        /\ tasks' = [t \in TaskIds |->
                       IF t >= nextTask /\ t < nextTask + Len(dueSeq)
                       THEN delay(dueSeq[t - nextTask + 1], now)
                       ELSE tasks[t]]
        /\ nextTask' = nextTask + Len(dueSeq)
        /\ sinceDue' = [m \in MonitorIds |->
                          IF m \in due THEN sinceDue[m] + 1 ELSE sinceDue[m]]
        /\ UNCHANGED <<now, monitors, alerts, history, calls, userOps, eng, crashes, response>>

\* A worker that scans the monitor it has read whether it is active or not
Execute_ignores_active(t) ==
    /\ tasks[t].pc = "queued"
    /\ tasks[t].eta <= now
    /\ LET task == [tasks[t] EXCEPT !.executions = @ + 1]
           monitor_id == task.monitor_id
           after ==
               IF monitor_id \notin DOMAIN monitors
               THEN on_exception(task, now)
               ELSE [task EXCEPT !.pc = "scanning",
                                 !.monitor = {monitors[monitor_id]},
                                 !.scan_start = now]
       IN  /\ tasks' = [tasks EXCEPT ![t] = after]
    /\ UNCHANGED <<now, lastTick, monitors, alerts, history, nextTask, calls,
                   sinceDue, userOps, eng, crashes, response>>

\* A worker takes scan_monitor_task off the queue once its eta has come: the
\* monitor is read with find_one, and the scan starts
Execute(t) ==
    /\ tasks[t].pc = "queued"
    /\ tasks[t].eta <= now
    /\ LET task == [tasks[t] EXCEPT !.executions = @ + 1]
           monitor_id == task.monitor_id
           after ==
               IF monitor_id \notin DOMAIN monitors
               THEN on_exception(task, now)
               ELSE IF ~monitors[monitor_id].active
                    THEN [task EXCEPT !.pc = "done", !.result = "skipped"]
               ELSE [task EXCEPT !.pc = "scanning",
                                 !.monitor = {monitors[monitor_id]},
                                 !.scan_start = now]
       IN  /\ tasks' = [tasks EXCEPT ![t] = after]
    /\ UNCHANGED <<now, lastTick, monitors, alerts, history, nextTask, calls,
                   sinceDue, userOps, eng, crashes, response>>

\* engine.scan_monitor(monitor) returns, and perform_scan goes on to its
\* end: if alert: db.alerts.insert_one(...); db.alert_history.insert_one(...);
\* next_scan = _calculate_next_scan(monitor.frequency); update_scan_status;
\* return the success result.  Either insert may raise, which ends the
\* attempt in the except branch.
CompleteOn(t, inputs) ==
    /\ tasks[t].pc = "scanning"
    /\ \E in \in inputs, monitor \in tasks[t].monitor :
       \E r \in {scan_monitor(monitor, in.search, in.llm, in.cost,
                              tasks[t].scan_start, now)},
          ok_alert \in BOOLEAN, ok_history \in BOOLEAN :
        LET task == tasks[t]
            id == <<"task", t, task.executions>>
            alert_raised == r.alert # {} /\ ~ok_alert
            raised == alert_raised \/ ~ok_history
            next_scan == calculate_next_scan(monitor.frequency, now)
        IN  /\ r.alert = {} => ok_alert
            /\ ~ok_alert => ok_history
            /\ alerts' = IF r.alert # {} /\ ok_alert
                         THEN alerts \cup {[id |-> id] @@ a : a \in r.alert}
                         ELSE alerts
            /\ history' = IF raised THEN history
                          ELSE history \cup {[id |-> id] @@ r.history}
            /\ monitors' = IF raised THEN monitors
                           ELSE update_scan_status(
                                    monitors, monitor.id,
                                    r.history.scan_timestamp, next_scan,
                                    IF r.alert # {} THEN 1 ELSE 0)
            /\ tasks' = [tasks EXCEPT ![t] =
                            IF raised THEN on_exception(task, now)
                            ELSE [task EXCEPT !.pc = "done",
                                              !.result = "success",
                                              !.monitor = {}]]
            /\ sinceDue' = IF ~raised /\ monitor.id \in DOMAIN monitors
                           THEN [sinceDue EXCEPT ![monitor.id] = 0]
                           ELSE sinceDue
    /\ UNCHANGED <<now, lastTick, nextTask, calls, userOps, eng, crashes, response>>

\* ... with the collaborators answering as in ScanInputs
Complete(t) == CompleteOn(t, ScanInputs)

PipelineNext ==
    \/ AdvanceTime
    \/ Tick
    \/ \E t \in TaskIds :
          Execute(t) \/ Complete(t)

PipelineSpec == Init /\ [][PipelineNext]_vars

\* The places of perform_scan at which the worker process may die: while
\* engine.scan_monitor runs, after db.alerts.insert_one, and after
\* db.alert_history.insert_one (before update_scan_status)
CrashPoints == {"scanning", "alert_inserted", "history_inserted"}

\* What the collaborators answer to the scans a crash may interrupt: the
\* scan gets as far as an alert for a threshold up to high
CrashInputs ==
    { [search |-> [kind |-> "ok", articles |-> <<GoodArticle("a")>>],
       llm |-> Reply("json", {<<"h", "i", "g", "h">>}, {"T1"}),
       cost |-> "ok"] }

\* The worker process dies while it executes task t.  The writes of
\* perform_scan are separate database calls and nothing rolls them back.  With
\* task_acks_late and task_reject_on_worker_lost the message was not yet
\* acknowledged and goes back to the queue, to be delivered again.
Crash(t) ==
    /\ crashes < MaxCrashes
    /\ tasks[t].pc = "scanning"
    /\ \E in \in CrashInputs, monitor \in tasks[t].monitor, point \in CrashPoints :
       \E r \in {scan_monitor(monitor, in.search, in.llm, in.cost,
                              tasks[t].scan_start, now)} :
        LET id == <<"task", t, tasks[t].executions>>
        IN  /\ alerts' = IF point # "scanning"
                         THEN alerts \cup {[id |-> id] @@ a : a \in r.alert}
                         ELSE alerts
            /\ history' = IF point = "history_inserted"
                          THEN history \cup {[id |-> id] @@ r.history}
                          ELSE history
    /\ tasks' = [tasks EXCEPT ![t] =
                    [@ EXCEPT !.pc = "queued", !.eta = now, !.monitor = {}]]
    /\ crashes' = crashes + 1
    /\ UNCHANGED <<now, lastTick, monitors, nextTask, calls, sinceDue, userOps,
                   eng, response>>

CompleteBeforeCrash(t) == CompleteOn(t, CrashInputs)

CrashNext ==
    \/ AdvanceTime
    \/ Tick
    \/ \E t \in TaskIds :
          Execute(t) \/ CompleteBeforeCrash(t) \/ Crash(t)

CrashSpec == Init /\ [][CrashNext]_vars

\* The pipeline while the analyzer is down: every search returns an article
\* that passes the filter, and every call of the analyzer raises or times out
AnalyzerDownInputs ==
    { [search |-> [kind |-> "ok", articles |-> <<GoodArticle("a")>>],
       llm |-> NoReply, cost |-> c] : c \in {"raise", "ok"} }

CompleteAnalyzerDown(t) == CompleteOn(t, AnalyzerDownInputs)

AnalyzerDownNext ==
    \/ AdvanceTime
    \/ Tick
    \/ \E t \in TaskIds :
          Execute(t) \/ CompleteAnalyzerDown(t)

AnalyzerDownSpec == Init /\ [][AnalyzerDownNext]_vars

----------------------------------------------------------------------------
(* The user's requests on monitors (server.py, MonitorService) *)

\* The fields an UpdateMonitorRequest sets: each absent ({}) or given
UpdateRequests ==
    { [frequency |-> {"weekly"}, active |-> {}],
      [frequency |-> {}, active |-> {FALSE}],
      [frequency |-> {}, active |-> {TRUE}] }

\* MonitorService.update_monitor: update_one({"id", "user_id"}, {"$set": ...})
update_monitor(store, monitor_id, user_id, request, t) ==
    IF monitor_id \in DOMAIN store /\ store[monitor_id].user_id = user_id
    THEN LET m0 == store[monitor_id]
             m1 == IF request.frequency # {}
                   THEN LET f == CHOOSE x \in request.frequency : TRUE
                        IN  [m0 EXCEPT !.frequency = f,
                                       !.next_scan = {calculate_next_scan(f, t)}]
                   ELSE m0
             m2 == IF request.active # {}
                   THEN [m1 EXCEPT !.active = CHOOSE x \in request.active : TRUE]
                   ELSE m1
         IN  [store EXCEPT ![monitor_id] = m2]
    ELSE store

\* MonitorService.delete_monitor: delete_one({"id", "user_id"})
delete_monitor(store, monitor_id, user_id) ==
    IF monitor_id \in DOMAIN store /\ store[monitor_id].user_id = user_id
    THEN [m \in DOMAIN store \ {monitor_id} |-> store[m]]
    ELSE store

\* PUT /monitors/{monitor_id} with a request of the set requests: 404 when
\* update_monitor returns None (no document matched id and user_id)
UpdateMonitorOf(m, u, requests, budget) ==
    /\ userOps < budget
    /\ \E request \in requests :
        /\ monitors' = update_monitor(monitors, m, u, request, now)
        /\ sinceDue' = IF request.frequency # {} /\ monitors' # monitors
                       THEN [sinceDue EXCEPT ![m] = 0]
                       ELSE sinceDue
    /\ response' = Answer(u, "monitor", m,
                          IF m \in DOMAIN monitors /\ monitors[m].user_id = u
                          THEN "ok" ELSE "not_found")
    /\ userOps' = userOps + 1
    /\ UNCHANGED <<now, lastTick, alerts, history, tasks, nextTask, calls, eng, crashes>>

UpdateMonitor(m, u) == UpdateMonitorOf(m, u, UpdateRequests, MaxUserOps)

\* DELETE /monitors/{monitor_id}: 404 when delete_monitor deleted nothing
DeleteMonitorOf(m, u, budget) ==
    /\ userOps < budget
    /\ monitors' = delete_monitor(monitors, m, u)
    /\ response' = Answer(u, "monitor", m,
                          IF m \in DOMAIN monitors /\ monitors[m].user_id = u
                          THEN "ok" ELSE "not_found")
    /\ userOps' = userOps + 1
    /\ UNCHANGED <<now, lastTick, alerts, history, tasks, nextTask, calls,
                   sinceDue, eng, crashes>>

DeleteMonitor(m, u) == DeleteMonitorOf(m, u, MaxUserOps)

\* POST /monitors/{monitor_id}/test: get_monitor(monitor_id, user) and, when
\* it is found, scan_monitor_task.delay(monitor_id)
TestMonitor(m, u) ==
    /\ userOps < MaxUserOps
    /\ nextTask <= MaxDispatch
    /\ m \in DOMAIN monitors
    /\ monitors[m].user_id = u
    /\ tasks' = [tasks EXCEPT ![nextTask] = delay(m, now)]
    /\ nextTask' = nextTask + 1
    /\ response' = Answer(u, "monitor", m, "ok")
    /\ userOps' = userOps + 1
    /\ UNCHANGED <<now, lastTick, monitors, alerts, history, calls, sinceDue, eng, crashes>>

\* The monitors the users' requests name
UserTargets == {"m1"}

UserNext ==
    \E m \in UserTargets, u \in UserIds :
        UpdateMonitor(m, u) \/ DeleteMonitor(m, u) \/ TestMonitor(m, u)

Next == PipelineNext \/ UserNext

Spec == Init /\ [][Next]_vars

----------------------------------------------------------------------------
(* The requests on the stores: monitors created, edited and deleted, alert   *)
(* statuses set, old alerts purged; scans run meanwhile                      *)

\* MonitorFrequency
Frequencies == {"hourly", "daily", "weekly"}

\* AlertStatus
AlertStatuses == {"new", "acknowledged", "resolved", "false_positive"}

\* Every UpdateMonitorRequest over frequency and active
AllUpdateRequests ==
    {[frequency |-> f, active |-> a] :
        f \in {{}} \cup {{x} : x \in Frequencies},
        a \in {{}, {TRUE}, {FALSE}}}

\* POST /monitors: MonitorService.create_monitor inserts the new monitor
CreateMonitor(m, u) ==
    /\ userOps < MaxRequests
    /\ m \notin DOMAIN monitors
    /\ \E frequency \in Frequencies :
         monitors' = [x \in DOMAIN monitors \cup {m} |->
                         IF x = m
                         THEN new_monitor(m, u, frequency, "medium", now)
                         ELSE monitors[x]]
    /\ response' = Answer(u, "monitor", m, "ok")
    /\ userOps' = userOps + 1
    /\ UNCHANGED <<now, lastTick, alerts, history, tasks, nextTask, calls,
                   sinceDue, eng, crashes>>

EditMonitor(m, u) == UpdateMonitorOf(m, u, AllUpdateRequests, MaxRequests)

RemoveMonitor(m, u) == DeleteMonitorOf(m, u, MaxRequests)

\* An update that looks the alert up by its id alone
update_alert_status_any_user(store, alert_id, user_id, new_status) ==
    {IF a.id = alert_id THEN [a EXCEPT !.status = new_status] ELSE a : a \in store}

\* AlertService.update_alert_status: update_one({"id", "user_id"},
\* {"$set": {"status": new_status}})
update_alert_status(store, alert_id, user_id, new_status) ==
    {IF a.id = alert_id /\ a.user_id = user_id
     THEN [a EXCEPT !.status = new_status]
     ELSE a : a \in store}

\* PUT /alerts/{alert_id}/status?status=...: 404 when update_alert_status
\* returns None (no document matched id and user_id)
UpdateAlertStatus(alert_id, u) ==
    /\ userOps < MaxRequests
    /\ \E new_status \in AlertStatuses :
         alerts' = update_alert_status(alerts, alert_id, u, new_status)
    /\ response' = Answer(u, "alert", alert_id,
                          IF \E a \in alerts : a.id = alert_id /\ a.user_id = u
                          THEN "ok" ELSE "not_found")
    /\ userOps' = userOps + 1
    /\ UNCHANGED <<now, lastTick, monitors, history, tasks, nextTask, calls,
                   sinceDue, eng, crashes>>

\* A purge by age alone, whoever owns the alert
cleanup_old_alerts_all_users(store, user_id, days_to_keep, t) ==
    {a \in store : ~(a.created_at < t - days_to_keep * Day)}

\* AlertService.cleanup_old_alerts: delete_many({"user_id": user_id,
\* "created_at": {"$lt": now - days_to_keep days}})
cleanup_old_alerts(store, user_id, days_to_keep, t) ==
    {a \in store : ~(a.user_id = user_id /\ a.created_at < t - days_to_keep * Day)}

\* What a subscription document may say of the tier; "none" is no document
SubscriptionTiers ==
    {"none", "free", "professional", "enterprise", "enterprise_plus", "other"}

\* days_to_keep in cleanup_old_alerts_task: tier_retention.get(tier, 7), 7
\* without a subscription, None (no purge) for enterprise_plus
tier_retention(tier) ==
    IF tier = "professional" THEN {30}
    ELSE IF tier = "enterprise" THEN {365}
    ELSE IF tier = "enterprise_plus" THEN {}
    ELSE {7}

RECURSIVE cleanup_from(_, _, _, _, _)
\* The loop of cleanup_old_alerts_task over the users, from user i on
cleanup_from(store, users, tiers, i, t) ==
    IF i > Len(users) THEN store
    ELSE LET user_id == users[i]
             days_to_keep == tier_retention(tiers[user_id])
         IN  IF days_to_keep = {}
             THEN cleanup_from(store, users, tiers, i + 1, t)
             ELSE cleanup_from(
                      cleanup_old_alerts(store, user_id,
                                         CHOOSE d \in days_to_keep : TRUE, t),
                      users, tiers, i + 1, t)

\* db.users, in the order the cursor yields them
Users == <<"u1", "u2">>

\* cleanup_old_alerts_task, with the users' subscriptions as they are found
CleanupTask ==
    /\ userOps < MaxRequests
    /\ \E tiers \in [UserIds -> SubscriptionTiers] :
         /\ alerts' = cleanup_from(alerts, Users, tiers, 1, now)
         /\ response' = Answer("none", "task", tiers, "ok")
    /\ userOps' = userOps + 1
    /\ UNCHANGED <<now, lastTick, monitors, history, tasks, nextTask, calls,
                   sinceDue, eng, crashes>>

\* An alert as stored, created_at beat intervals ago
StoredAlert(k, user_id, created_at) ==
    [id |-> <<"init", k, 0>>, monitor_id |-> "m2", user_id |-> user_id,
     title |-> "T1", severity |-> "high", source_count |-> 1,
     status |-> "new", created_at |-> created_at]

\* Monitor m2 of u2 exists, daily and due, active or paused; u1 has an alert
\* just older than 7 days and one exactly 7 days old, u2 one older than a year
\* and a fresh one; one scan record is older than a year
InitRequests ==
    /\ now = 0
    /\ lastTick = -1
    /\ \E active \in BOOLEAN :
          monitors = [m \in {"m2"} |->
                        [new_monitor("m2", "u2", "daily", "high", -Day)
                           EXCEPT !.active = active]]
    /\ alerts = {StoredAlert(1, "u1", -7 * Day - 1), StoredAlert(2, "u1", -7 * Day),
                 StoredAlert(3, "u2", -366 * Day), StoredAlert(4, "u2", -1)}
    /\ history = {[id |-> <<"init", 0, 0>>]
                    @@ new_history(new_monitor("m2", "u2", "daily", "high", -Day),
                                   -366 * Day)}
    /\ tasks = [t \in TaskIds |-> NoTask]
    /\ nextTask = 1
    /\ calls = [c \in CallerIds |-> NoCall]
    /\ sinceDue = [m \in MonitorIds |-> 0]
    /\ userOps = 0
    /\ crashes = 0
    /\ response = NoResponse
    /\ eng = NoEng

\* PUT, DELETE and POST on /monitors while the pipeline runs
EditMonitorOnce(m, u) == UpdateMonitorOf(m, u, AllUpdateRequests, MaxUserOps)

CreateMonitorOnce(m, u) == userOps < MaxUserOps /\ CreateMonitor(m, u)

\* The pipeline, with a monitor being created, edited or deleted meanwhile
ScheduleNext ==
    \/ AdvanceTime
    \/ Tick
    \/ \E t \in TaskIds :
          Execute(t) \/ CompleteAnalyzerDown(t)
    \/ \E m \in MonitorIds, u \in UserIds :
          CreateMonitorOnce(m, u) \/ EditMonitorOnce(m, u) \/ DeleteMonitor(m, u)

ScheduleSpec == InitRequests /\ [][ScheduleNext]_vars

----------------------------------------------------------------------------
(* AlertService.create_alert, called by two callers *)

\* create_alert up to its first await: the AlertModel is built (created_at is
\* now) and _is_duplicate_alert runs its find_one; a duplicate ends the call
\* with None
CallCheck(c) ==
    /\ calls[c].pc = "idle"
    /\ \E monitor_id \in MonitorIds, user_id \in UserIds, title \in Titles :
        LET call == [calls[c] EXCEPT !.monitor_id = monitor_id,
                                     !.user_id = user_id,
                                     !.title = title,
                                     !.created_at = now]
        IN  calls' = [calls EXCEPT ![c] =
                IF is_duplicate_alert(alerts, user_id, monitor_id, title,
                                      DedupHours, now)
                THEN [call EXCEPT !.pc = "done", !.result = "duplicate"]
                ELSE [call EXCEPT !.pc = "insert"]]
    /\ UNCHANGED <<now, lastTick, monitors, alerts, history, tasks, nextTask,
                   sinceDue, userOps, eng, crashes, response>>

\* self.collection.insert_one(alert.model_dump()); return alert
CallInsert(c) ==
    /\ calls[c].pc = "insert"
    /\ alerts' = alerts \cup
                 {[id |-> <<"call", c, 0>>,
                   monitor_id |-> calls[c].monitor_id,
                   user_id |-> calls[c].user_id,
                   title |-> calls[c].title,
                   severity |-> "high",
                   source_count |-> 0,
                   status |-> "new",
                   created_at |-> calls[c].created_at]}
    /\ calls' = [calls EXCEPT ![c].pc = "done", ![c].result = "created"]
    /\ UNCHANGED <<now, lastTick, monitors, history, tasks, nextTask,
                   sinceDue, userOps, eng, crashes, response>>

\* Five minutes pass
TimePasses ==
    /\ now < MaxTime
    /\ now' = now + 1
    /\ UNCHANGED <<lastTick, monitors, alerts, history, tasks, nextTask, calls,
                   sinceDue, userOps, eng, crashes, response>>

AlertNext ==
    \/ TimePasses
    \/ \E c \in CallerIds : CallCheck(c) \/ CallInsert(c)

AlertSpec == Init /\ [][AlertNext]_vars

\* The requests alone, as time passes
RequestNext ==
    \/ TimePasses
    \/ \E m \in MonitorIds, u \in UserIds :
          CreateMonitor(m, u) \/ EditMonitor(m, u) \/ RemoveMonitor(m, u)
    \/ \E a \in 1..4, u \in UserIds :
          UpdateAlertStatus(<<"init", a, 0>>, u)
    \/ CleanupTask

RequestSpec == InitRequests /\ [][RequestNext]_vars

----------------------------------------------------------------------------
(* MonitorEngine.scan_monitor applied to chosen inputs *)

SeverityStrings ==
    { <<"l", "o", "w">>, <<"m", "e", "d", "i", "u", "m">>,
      <<"h", "i", "g", "h">>, <<"c", "r", "i", "t", "i", "c", "a", "l">>,
      <<"H", "I", "G", "H">>, <<"u", "r", "g", "e", "n", "t">> }

Replies ==
    {Reply("error", {}, {}), Reply("badjson", {}, {}), Reply("text", {}, {})}
    \cup {Reply("json", sev, title) :
            sev \in {{}} \cup {{x} : x \in SeverityStrings},
            title \in {{}, {"T1"}}}

ShortArticle(url) == [GoodArticle(url) EXCEPT !.snippet = Pad(49)]
SpamArticle(url) ==
    [GoodArticle(url) EXCEPT !.title = <<"S", "p", "a", "m", " ", "a", "d">>]
UndatedArticle(url) == [GoodArticle(url) EXCEPT !.date = "none"]
BadDateArticle(url) == [GoodArticle(url) EXCEPT !.date = "bad"]

ArticleLists ==
    { <<>>,
      <<GoodArticle("a")>>,
      <<ShortArticle("a")>>,
      <<GoodArticle("a"), GoodArticle("a"), UndatedArticle("b")>>,
      <<SpamArticle("a"), GoodArticle("b"), ShortArticle("c")>>,
      <<SpamArticle("a"), ShortArticle("b")>>,
      <<BadDateArticle("a")>>,
      [i \in 1..12 |-> GoodArticle(<<"u", i>>)] }

Searches ==
    {[kind |-> "raise", articles |-> <<>>], [kind |-> "fail", articles |-> <<>>]}
    \cup {[kind |-> "ok", articles |-> l] : l \in ArticleLists}

EngineMonitors ==
    {[new_monitor("m1", "u1", "daily", threshold, 0)
        EXCEPT !.exclude_keywords = ex] :
        threshold \in SeverityLevels, ex \in {<<>>, <<<<"s", "p", "a", "m">>>>}}

EngineInputs ==
    {[monitor |-> m, search |-> se, llm |-> r, cost |-> c] :
        m \in EngineMonitors, se \in Searches, r \in Replies,
        c \in {"raise", "ok"}}

InitEngine ==
    /\ InitStores
    /\ \E i \in EngineInputs : eng = [input |-> {i}, output |-> {}]

\* alert, history = await engine.scan_monitor(monitor)
EngineScan ==
    /\ eng.output = {}
    /\ \E i \in eng.input :
         eng' = [eng EXCEPT !.output =
                    {scan_monitor(i.monitor, i.search, i.llm, i.cost,
                                  now, now)}]
    /\ UNCHANGED <<now, lastTick, monitors, alerts, history, tasks, nextTask,
                   calls, sinceDue, userOps, crashes, response>>

EngineSpec == InitEngine /\ [][EngineScan]_vars

----------------------------------------------------------------------------
(* MonitorEngine._filter_articles applied to chosen batches *)

MaxBatch == 3

LoudArticle(url) ==
    [GoodArticle(url) EXCEPT !.snippet = <<"S", "P", "A", "M">> \o Pad(46)]

Candidates ==
    {GoodArticle("a"), GoodArticle("b"), UndatedArticle("a"),
     ShortArticle("a"), SpamArticle("b"), LoudArticle("c")}

Batches == UNION {[1..n -> Candidates] : n \in 0..MaxBatch}

FilterMonitors == {m \in EngineMonitors : m.severity_threshold = "low"}

InitFilter ==
    /\ InitStores
    /\ \E m \in FilterMonitors, b \in Batches :
         eng = [input |-> {[monitor |-> m, articles |-> b]}, output |-> {}]

\* relevant_articles = self._filter_articles(articles, monitor)
FilterArticles ==
    /\ eng.output = {}
    /\ \E i \in eng.input :
         eng' = [eng EXCEPT !.output =
                    {filter_articles(i.articles, i.monitor)}]
    /\ UNCHANGED <<now, lastTick, monitors, alerts, history, tasks, nextTask,
                   calls, sinceDue, userOps, crashes, response>>

FilterSpec == InitFilter /\ [][FilterArticles]_vars

----------------------------------------------------------------------------
(* Fair scheduling: beat runs its tick every interval, time passes, and the   *)
(* workers take queued tasks and finish the scans they started.              *)

Fairness ==
    /\ WF_vars(Tick)
    /\ WF_vars(AdvanceTime)
    /\ \A t \in TaskIds : WF_vars(Execute(t)) /\ WF_vars(Complete(t))

LiveSpec == Init /\ [][PipelineNext]_vars /\ Fairness

----------------------------------------------------------------------------
(* Properties of the scheduled pipeline *)

\* C1: at any time at most one scan of a given monitor is in flight (queued
\* or running): neither a tick nor a manual test trigger starts a second one.
C1_AtMostOneInFlight ==
    \A t1, t2 \in TaskIds :
        ( /\ tasks[t1].pc \in {"queued", "scanning"}
          /\ tasks[t2].pc \in {"queued", "scanning"}
          /\ tasks[t1].monitor_id = tasks[t2].monitor_id ) => t1 = t2

C6_OneScanPerDuePeriod ==
    \A m \in MonitorIds : sinceDue[m] <= 1

C8_NextScanRecomputed ==
    [][\A t \in TaskIds :
          ( /\ tasks[t].pc = "scanning"
            /\ tasks'[t].pc # "scanning"
            /\ tasks[t].monitor_id \in DOMAIN monitors
            /\ monitors[tasks[t].monitor_id].active )
          => monitors'[tasks[t].monitor_id].next_scan =
                {calculate_next_scan(monitors[tasks[t].monitor_id].frequency,
                                     now)}]_vars

\* C9: when a dispatched scan has failed on every attempt and its retries are
\* exhausted, the task reports a failed result and the monitor's next_scan has
\* been advanced past the current time.
C9_ExhaustedStillAdvances ==
    [][\A t \in TaskIds :
          ( /\ tasks[t].pc = "scanning"
            /\ ~retry_allowed(tasks[t].retries)
            /\ tasks'[t].pc = "done"
            /\ tasks'[t].result # "success"
            /\ tasks[t].monitor_id \in DOMAIN monitors )
          => /\ tasks'[t].result = "failed"
             /\ \E ns \in monitors'[tasks[t].monitor_id].next_scan : ns > now]_vars

\* C10, as stated: a dispatched scan is executed at most 3 times in total
C10_AtMostThreeExecutions ==
    \A t \in TaskIds : tasks[t].executions <= 3

\* C10: a dispatched scan is executed at most 4 times in total (the first
\* attempt plus three retries); a retry is queued with an eta one retry delay
\* after the failure and is executed no earlier; the attempt that fails with
\* the retries used up ends the task, which is never run again.
C10_AtMostFourExecutions ==
    [][\A t \in TaskIds :
          /\ tasks'[t].executions <= MAX_RETRIES + 1
          /\ tasks'[t].executions # tasks[t].executions
                => /\ tasks[t].pc = "queued"
                   /\ tasks'[t].executions = tasks[t].executions + 1
                   /\ now >= tasks[t].eta
          /\ (tasks[t].pc # "none" /\ tasks[t].pc # "queued"
                /\ tasks'[t].pc = "queued")
                => /\ tasks[t].executions <= MAX_RETRIES
                   /\ tasks'[t].eta = now + RetryDelay
                   /\ tasks'[t].eta > now
          /\ tasks[t].pc = "done" => tasks'[t] = tasks[t]]_vars

\* A task has run four times and ended failed
C10_Witness ==
    \E t \in TaskIds :
        /\ tasks[t].executions = MAX_RETRIES + 1
        /\ tasks[t].pc = "done"
        /\ tasks[t].result = "failed"

\* C11: a scan attempt that fails because the search call or the analyzer
\* call errors is retried while the attempt cap has not been reached: a failed
\* scan record is stored only by the last attempt the cap allows.
C11_FailedRecordOnlyAfterCap ==
    \A h \in history :
        (h.id[1] = "task" /\ ~h.success) => h.id[3] >= MAX_RETRIES

\* C12: each dispatched scan that has reached a terminal outcome (success, or
\* retries exhausted) has written exactly one scan record to alert_history,
\* counted over all its attempts.
C12_OneRecordPerDispatch ==
    \A t \in TaskIds :
        (tasks[t].pc = "done" /\ tasks[t].result \in {"success", "failed"})
        => Cardinality({h \in history :
                           h.id[1] = "task" /\ h.id[2] = t}) = 1

C14_ResultDiscardedWhenGone ==
    [][\A t \in TaskIds :
          (/\ tasks[t].pc = "scanning"
           /\ tasks'[t].pc # "scanning"
           /\ \/ tasks[t].monitor_id \notin DOMAIN monitors
              \/ ~monitors[tasks[t].monitor_id].active)
          => (alerts' = alerts /\ monitors' = monitors)]_vars

\* C16: an execution of scan_monitor_task that finds its monitor missing ends
\* the task at once, without a retry, and writes no alert, no scan record and
\* nothing to the monitors.
C16_MissingMonitorNoRetry ==
    [][\A t \in TaskIds :
          (/\ tasks[t].pc = "queued"
           /\ tasks'[t] # tasks[t]
           /\ tasks[t].monitor_id \notin DOMAIN monitors)
          => (/\ tasks'[t].pc = "done"
              /\ tasks'[t].retries = tasks[t].retries
              /\ alerts' = alerts
              /\ history' = history
              /\ monitors' = monitors)]_vars

----------------------------------------------------------------------------
(* Properties of AlertService.create_alert *)

\* C3: for any two create_alert calls with identical owner id, monitor id and
\* title issued within 24 hours of each other, under every interleaving of
\* their duplicate check and insert, exactly one alert with that key created
\* within the 24 hours before the later call exists afterwards.
C3_ExactlyOneAlert ==
    \A c, d \in CallerIds :
        ( /\ c # d
          /\ calls[c].pc = "done"
          /\ calls[d].pc = "done"
          /\ calls[c].user_id = calls[d].user_id
          /\ calls[c].monitor_id = calls[d].monitor_id
          /\ calls[c].title = calls[d].title
          /\ calls[c].created_at <= calls[d].created_at
          /\ calls[d].created_at - calls[c].created_at <= DedupHours * Hour )
        => Cardinality({a \in alerts :
                          /\ a.user_id = calls[d].user_id
                          /\ a.monitor_id = calls[d].monitor_id
                          /\ a.title = calls[d].title
                          /\ calls[d].created_at - a.created_at
                                <= DedupHours * Hour}) = 1

\* C4: a create_alert call made while an alert with the same owner id,
\* monitor id and exactly equal title created within the trailing 24 hours
\* exists inserts nothing, returns the duplicate outcome and leaves the stored
\* alerts unchanged; when no stored alert matches (the only one of that key is
\* older, or the title differs) the call goes on to insert the new alert and
\* returns it.
C4_DuplicateSuppressed ==
    [][\A c \in CallerIds :
          /\ (calls[c].pc = "idle" /\ calls'[c].pc # "idle")
                => /\ alerts' = alerts
                   /\ IF \E a \in alerts :
                            /\ a.user_id = calls'[c].user_id
                            /\ a.monitor_id = calls'[c].monitor_id
                            /\ a.title = calls'[c].title
                            /\ now - a.created_at <= DedupHours * Hour
                      THEN calls'[c].pc = "done"
                           /\ calls'[c].result = "duplicate"
                      ELSE calls'[c].pc = "insert"
          /\ (calls[c].pc = "insert" /\ calls'[c].pc # "insert")
                => /\ calls'[c].pc = "done"
                   /\ calls'[c].result = "created"
                   /\ Cardinality(alerts' \ alerts) = 1
                   /\ alerts \subseteq alerts'
                   /\ \E a \in alerts' \ alerts :
                         /\ a.user_id = calls[c].user_id
                         /\ a.monitor_id = calls[c].monitor_id
                         /\ a.title = calls[c].title
                         /\ a.created_at = calls[c].created_at]_vars

\* One call found the alert of exactly 24 hours ago and returned duplicate;
\* a call of the same key five minutes later inserted, as did a call whose
\* title differs in case only
C4_Witness ==
    /\ \E c \in CallerIds :
          /\ calls[c].pc = "done"
          /\ calls[c].result = "duplicate"
          /\ calls[c].created_at = 0
    /\ \E c \in CallerIds :
          /\ calls[c].pc = "done"
          /\ calls[c].result = "created"
          /\ calls[c].monitor_id = "m1"
          /\ calls[c].user_id = "u1"
          /\ calls[c].title \in {"T1", "t1"}
    /\ Cardinality(alerts) = 2

----------------------------------------------------------------------------
(* Properties of MonitorEngine.scan_monitor *)

C22_ActiveHasNextScan ==
    \A m \in DOMAIN monitors :
        monitors[m].active => Cardinality(monitors[m].next_scan) = 1

\* m2 was re-activated by its owner and then scanned; it is active and
\* scheduled
C22_Witness ==
    /\ "m2" \in DOMAIN monitors
    /\ userOps = 1
    /\ response.code = "ok"
    /\ monitors["m2"].active
    /\ monitors["m2"].scan_count = 1
    /\ monitors["m2"].next_scan # {}
    /\ \E t \in TaskIds : /\ tasks[t].monitor_id = "m2"
                          /\ tasks[t].pc = "done"
                          /\ tasks[t].result = "success"
                          /\ tasks[t].eta > 0

\* C23: every computation of next_scan gives the current time plus 1 hour for
\* hourly, 24 hours for daily, 7 days for weekly, and 24 hours for a
\* frequency that is unknown or unset; this is the value stored when a
\* monitor is created, when its frequency is edited and when a scan of it
\* completes (with the frequency the computation was given), so a monitor
\* created daily has next_scan within [now, now + 24h].
C23_NextScanArithmetic ==
    [][LET interval(f) == IF f = "hourly" THEN 12
                          ELSE IF f = "weekly" THEN 7 * 24 * 12
                          ELSE 24 * 12
       IN  /\ \A f \in Frequencies \cup {"monthly", "none"} :
                 calculate_next_scan(f, now) = now + interval(f)
           /\ \A m \in DOMAIN monitors' :
                 LET given ==
                         IF m \in DOMAIN monitors /\ userOps' = userOps
                         THEN {mon.frequency : mon \in
                                 UNION {tasks[t].monitor : t \in
                                    {x \in TaskIds : tasks[x].monitor_id = m}}}
                         ELSE {monitors'[m].frequency}
                 IN  (\/ m \notin DOMAIN monitors
                      \/ monitors'[m].next_scan # monitors[m].next_scan)
                     => /\ \E f \in given :
                              monitors'[m].next_scan = {now + interval(f)}
                        /\ (m \notin DOMAIN monitors
                            /\ monitors'[m].frequency = "daily")
                           => \A ns \in monitors'[m].next_scan :
                                 ns >= now /\ ns <= now + 24 * 12]_vars

\* m1 was created weekly and is scheduled a week after a time that has come,
\* and a scan of the daily m2 has completed and scheduled it a day later
C23_Witness ==
    /\ "m1" \in DOMAIN monitors
    /\ "m2" \in DOMAIN monitors
    /\ monitors["m1"].frequency = "weekly"
    /\ \E ns \in monitors["m1"].next_scan : ns <= now + Week /\ ns >= Week
    /\ monitors["m2"].scan_count = 1
    /\ \E ns \in monitors["m2"].next_scan : ns <= now + Day /\ ns >= Day

\* C24: the step that advances the schedule of an active monitor after a scan
\* leaves its next_scan strictly later than the current time, and the monitor
\* out of the due set now and at every time before that next_scan.
C24_AdvancePutsInFuture ==
    [][\A t \in TaskIds :
          (/\ tasks[t].pc = "scanning"
           /\ tasks'[t].pc = "done"
           /\ tasks'[t].result = "success"
           /\ tasks[t].monitor_id \in DOMAIN monitors
           /\ monitors[tasks[t].monitor_id].active)
          => LET m == tasks[t].monitor_id
             IN  /\ monitors'[m].next_scan # {}
                 /\ \A ns \in monitors'[m].next_scan :
                       /\ ns > now
                       /\ \A t2 \in now..MaxTime :
                             t2 < ns => m \notin get_due_monitors(monitors', t2)]_vars

\* A scan of m1 has completed: m1 is scheduled in the future and not due
C24_Witness ==
    /\ \E t \in TaskIds : /\ tasks[t].monitor_id = "m1"
                          /\ tasks[t].pc = "done"
                          /\ tasks[t].result = "success"
    /\ monitors["m1"].active
    /\ monitors["m1"].scan_count = 1
    /\ \E ns \in monitors["m1"].next_scan : ns > now
    /\ "m1" \notin get_due_monitors(monitors, now)

\* C25: a request that changes a monitor's frequency sets its next_scan to
\* the current time plus the interval of the new frequency; a request that
\* leaves the frequency as it was leaves next_scan as it was.
C25_NextScanFollowsFrequencyEdit ==
    [][\A m \in DOMAIN monitors \cap DOMAIN monitors' :
          userOps' # userOps
          => IF monitors'[m].frequency # monitors[m].frequency
             THEN monitors'[m].next_scan =
                     {now + (IF monitors'[m].frequency = "hourly" THEN 12
                             ELSE IF monitors'[m].frequency = "weekly"
                                  THEN 7 * 24 * 12
                             ELSE 24 * 12)}
             ELSE monitors'[m].next_scan = monitors[m].next_scan]_vars

\* C26: every change of an alert's status is one of new -> acknowledged,
\* new -> resolved, acknowledged -> resolved, new -> false_positive,
\* acknowledged -> false_positive; so resolved and false_positive are final
\* and no alert returns to new.
C26_StatusTransitions ==
    [][\A a \in alerts, b \in alerts' :
          (a.id = b.id /\ a.status # b.status)
          => <<a.status, b.status>> \in
                {<<"new", "acknowledged">>, <<"new", "resolved">>,
                 <<"acknowledged", "resolved">>, <<"new", "false_positive">>,
                 <<"acknowledged", "false_positive">>}]_vars

\* C27: a monitor update, a monitor delete or an alert status update asked
\* by a user who does not own the monitor or alert changes nothing in the
\* stores and is answered not-found; a request of the owner is answered ok,
\* and a stored monitor or an alert's status changes only by a request of its
\* owner.
C27_OnlyOwnerModifies ==
    [][userOps' # userOps
          => LET r == response'
             IN  /\ (r.kind = "monitor" /\ r.target \in DOMAIN monitors)
                    => IF monitors[r.target].user_id # r.user_id
                       THEN /\ r.code = "not_found"
                            /\ monitors' = monitors
                            /\ alerts' = alerts
                       ELSE r.code = "ok"
                 /\ r.kind = "alert"
                    => \A a \in alerts :
                          a.id = r.target
                          => IF a.user_id # r.user_id
                             THEN /\ r.code = "not_found"
                                  /\ monitors' = monitors
                                  /\ alerts' = alerts
                             ELSE r.code = "ok"
                 /\ \A m \in DOMAIN monitors :
                       (m \notin DOMAIN monitors' \/ monitors'[m] # monitors[m])
                       => /\ r.kind = "monitor"
                          /\ r.target = m
                          /\ r.user_id = monitors[m].user_id
                 /\ \A a \in alerts, b \in alerts' :
                       (a.id = b.id /\ a.status # b.status)
                       => /\ r.kind = "alert"
                          /\ r.target = a.id
                          /\ r.user_id = a.user_id]_vars

\* After two requests, the second of u1 to set the status of an alert that u2
\* owns, answered not-found, the monitor and the alerts are as they were
C27_Witness ==
    /\ userOps = 2
    /\ response.kind = "alert"
    /\ response.user_id = "u1"
    /\ response.target = <<"init", 3, 0>>
    /\ response.code = "not_found"
    /\ "m2" \in DOMAIN monitors
    /\ monitors["m2"].user_id = "u2"
    /\ monitors["m2"].frequency = "daily"
    /\ monitors["m2"].next_scan = {0}
    /\ DOMAIN monitors = {"m2"}
    /\ \A a \in alerts : a.status = "new"
    /\ Cardinality(alerts) = 4

\* C28: the purge of old alerts deletes, for each owner, exactly the alerts
\* of that owner created before the horizon of the owner's tier (7 days for
\* free, for no subscription and for an unknown tier, 30 for professional,
\* 365 for enterprise); alerts of an owner on the unbounded tier
\* (enterprise_plus), alerts within the horizon, the monitors and all scan
\* records are left as they were.
C28_CleanupExact ==
    [][(userOps' # userOps /\ response'.kind = "task")
          => LET tiers == response'.target
                 horizon(u) == IF tiers[u] = "professional" THEN {30 * 288}
                               ELSE IF tiers[u] = "enterprise" THEN {365 * 288}
                               ELSE IF tiers[u] = "enterprise_plus" THEN {}
                               ELSE {7 * 288}
                 purged == {a \in alerts :
                               \E h \in horizon(a.user_id) :
                                   a.created_at < now - h}
             IN  /\ alerts' = alerts \ purged
                 /\ history' = history
                 /\ monitors' = monitors]_vars

\* A purge ran with u1 on the free tier and u2 on the unbounded one: u1's
\* alert just older than 7 days is gone, the one exactly 7 days old and both
\* alerts of u2, one older than a year, are kept, and so is the scan record
C28_Witness ==
    /\ response.kind = "task"
    /\ response.target["u1"] = "free"
    /\ response.target["u2"] = "enterprise_plus"
    /\ userOps = 1
    /\ now = 0
    /\ {a.id[2] : a \in alerts} = {2, 3, 4}
    /\ Cardinality(history) = 1

C37_AdvanceUsesCurrentFrequency ==
    [][\A t \in TaskIds :
          (/\ tasks[t].pc = "scanning"
           /\ tasks'[t].pc = "done"
           /\ tasks'[t].result = "success"
           /\ tasks[t].monitor_id \in DOMAIN monitors
           /\ \E snapshot \in tasks[t].monitor :
                 snapshot.frequency # monitors[tasks[t].monitor_id].frequency)
          => \A ns \in monitors'[tasks[t].monitor_id].next_scan :
                ns <= calculate_next_scan(
                          monitors'[tasks[t].monitor_id].frequency, now)]_vars

\* C38: a monitor's last_scan never decreases: no write of last_scan replaces
\* a newer scan timestamp with an older one, also when scans of the monitor
\* overlap or complete out of order.
C38_LastScanMonotone ==
    [][\A m \in DOMAIN monitors \cap DOMAIN monitors' :
          \A before \in monitors[m].last_scan :
              \A after \in monitors'[m].last_scan : after >= before]_vars

\* C39: a scan task that starts for a monitor whose active flag is false
\* writes nothing: it ends as skipped without starting a scan (so no search
\* and no analyzer call), no alert and no scan record is inserted, and the
\* monitor's last_scan, next_scan, scan_count and alert_count stay as they
\* were.
C39_InactiveWritesNothing ==
    [][\A t \in TaskIds :
          (/\ tasks[t].pc = "queued"
           /\ tasks'[t] # tasks[t]
           /\ tasks[t].monitor_id \in DOMAIN monitors
           /\ ~monitors[tasks[t].monitor_id].active)
          => /\ tasks'[t].pc = "done"
             /\ tasks'[t].result = "skipped"
             /\ tasks'[t].monitor = {}
             /\ alerts' = alerts
             /\ history' = history
             /\ monitors' = monitors]_vars

\* The monitor was paused after its scan was queued; the task ended as
\* skipped and the monitor shows no scan
C39_Witness ==
    \E t \in TaskIds :
        /\ tasks[t].pc = "done"
        /\ tasks[t].result = "skipped"
        /\ tasks[t].monitor_id = "m2"
        /\ "m2" \in DOMAIN monitors
        /\ ~monitors["m2"].active
        /\ monitors["m2"].last_scan = {}
        /\ monitors["m2"].next_scan = {0}
        /\ monitors["m2"].scan_count = 0
        /\ \A h \in history : h.id[1] # "task"

C19_AnalyzerFailureStillAdvances ==
    [][\A h \in history' \ history :
          LET m == h.monitor_id
              interval == CASE monitors[m].frequency = "hourly" -> Hour
                            [] monitors[m].frequency = "daily" -> Day
                            [] monitors[m].frequency = "weekly" -> Week
          IN  /\ ~h.success
              /\ Len(h.errors) > 0
              /\ h.alerts_generated = 0
              /\ alerts' = alerts
              /\ monitors'[m].next_scan = {now + interval}]_vars

\* The record of a scan of m1 whose analyzer call failed is stored, and m1 is
\* scheduled an hour after a time that has come
C19_Witness ==
    \E h \in history :
        /\ h.id[1] = "task"
        /\ h.monitor_id = "m1"
        /\ ~h.success
        /\ h.errors = <<"AI analysis failed">>
        /\ \E ns \in monitors["m1"].next_scan : ns > now /\ ns <= now + Hour

\* C17: when the search and the analyzer succeed and the assessed severity
\* meets the monitor's threshold, the scan returns exactly one alert, with
\* status new and source_count = min(number of filtered articles, 10).
C17_AlertWhenGatePassed ==
    \A i \in eng.input, o \in eng.output :
        LET filtered == IF i.search.kind = "ok"
                        THEN filter_articles(i.search.articles, i.monitor)
                        ELSE <<>>
            severity == parse_severity(
                            IF i.llm.severity = {} THEN <<"l", "o", "w">>
                            ELSE CHOOSE x \in i.llm.severity : TRUE)
        IN  (/\ i.search.kind = "ok"
             /\ Len(filtered) > 0
             /\ i.llm.kind = "json"
             /\ severity_rank(severity)
                   >= severity_rank(i.monitor.severity_threshold))
            => /\ Cardinality(o.alert) = 1
               /\ \A a \in o.alert :
                     /\ a.status = "new"
                     /\ a.source_count =
                           IF Len(filtered) < 10 THEN Len(filtered) ELSE 10

\* C18: when the analyzer's reply cannot be parsed (no JSON object in it, or
\* one that is not valid JSON), the scan does not fail: it goes on with the
\* fallback assessment (severity medium, title made from the term) through
\* the severity gate, and the scan record carries no error.
C18_UnparseableUsesFallback ==
    \A i \in eng.input, o \in eng.output :
        (/\ i.search.kind = "ok"
         /\ Len(filter_articles(i.search.articles, i.monitor)) > 0
         /\ i.llm.kind \in {"text", "badjson"})
        => /\ \A a \in o.alert :
                 /\ a.severity = "medium"
                 /\ a.title = "Threats detected for " \o i.monitor.term
           /\ o.alert # {}
                 => severity_rank("medium")
                       >= severity_rank(i.monitor.severity_threshold)
           /\ (\/ i.cost = "ok"
               \/ severity_rank("medium")
                     < severity_rank(i.monitor.severity_threshold))
                 => /\ o.history.success
                    /\ o.history.errors = <<>>

\* C20: when the search succeeds with zero articles, the scan returns no
\* alert and a scan record with success true, alerts_generated 0 and no
\* error; the analyzer is not called (no tokens are recorded) and the cost
\* recorded is that of the one search query.
C20_NoArticlesNoAlert ==
    \A i \in eng.input, o \in eng.output :
        (i.search.kind = "ok" /\ Len(i.search.articles) = 0)
        => /\ o.alert = {}
           /\ o.history.success
           /\ o.history.errors = <<>>
           /\ o.history.alerts_generated = 0
           /\ o.history.articles_processed = 0
           /\ o.history.llm_input_tokens = 0
           /\ o.history.llm_output_tokens = 0
           /\ o.history.google_search_queries = 1
           /\ o.history.total_cost = 1

\* C30: the record of every scan whose search was performed carries the
\* accumulated cost: one search query unit, plus the cost of the tokens the
\* analyzer used when it was called and answered, whether or not the scan
\* returned an alert.
C30_RecordCarriesCost ==
    \A i \in eng.input, o \in eng.output :
        i.search.kind = "ok"
        => LET answered ==
                   /\ Len(filter_articles(i.search.articles, i.monitor)) > 0
                   /\ i.llm.kind \in {"json", "text"}
               tokens == IF answered
                         THEN i.llm.input_tokens + i.llm.output_tokens
                         ELSE 0
           IN  /\ o.history.google_search_queries = 1
               /\ o.history.total_cost = 1 + tokens

\* C5: for every assessed severity s and monitor threshold t in the order
\* low < medium < high < critical, a scan creates an alert only if s >= t;
\* when s < t no alert is created and the scan record has success true and
\* alerts_generated 0.  (s is the level the analyzer named in its parsed
\* reply, for a scan whose search returned articles that passed the filter.)
C5_SeverityGate ==
    \A i \in eng.input, o \in eng.output :
        LET rank == [x \in SeverityLevels |->
                        IF x = "low" THEN 1
                        ELSE IF x = "medium" THEN 2
                        ELSE IF x = "high" THEN 3 ELSE 4]
            name == [x \in SeverityLevels |->
                        IF x = "low" THEN <<"l", "o", "w">>
                        ELSE IF x = "medium" THEN <<"m", "e", "d", "i", "u", "m">>
                        ELSE IF x = "high" THEN <<"h", "i", "g", "h">>
                        ELSE <<"c", "r", "i", "t", "i", "c", "a", "l">>]
            assessed == {x \in SeverityLevels :
                            /\ i.search.kind = "ok"
                            /\ Len(filter_articles(i.search.articles,
                                                   i.monitor)) > 0
                            /\ i.llm.kind = "json"
                            /\ i.llm.severity = {name[x]}}
            t == i.monitor.severity_threshold
        IN  \A s \in assessed :
                /\ (o.alert # {} \/ o.history.alerts_generated # 0)
                      => rank[s] >= rank[t]
                /\ rank[s] < rank[t]
                      => /\ o.alert = {}
                         /\ o.history.success
                         /\ o.history.alerts_generated = 0

\* A scan of twelve articles assessed high against a critical threshold and
\* returned no alert and a successful record
C5_Witness ==
    \E i \in eng.input, o \in eng.output :
        /\ i.search.kind = "ok"
        /\ Len(i.search.articles) = 12
        /\ i.llm.kind = "json"
        /\ i.llm.severity = {<<"h", "i", "g", "h">>}
        /\ i.monitor.severity_threshold = "critical"
        /\ o.alert = {}
        /\ o.history.success
        /\ o.history.alerts_generated = 0
        /\ o.history.articles_processed = 12

\* C32: when the search returns articles and every one of them is filtered
\* out, the scan ends without calling the analyzer (no tokens are recorded)
\* and returns no alert and a scan record with success true, no error,
\* alerts_generated 0 and articles_processed equal to the number of articles
\* the search returned.
C32_NothingRelevantNoAlert ==
    \A i \in eng.input, o \in eng.output :
        LET articles == i.search.articles
            keywords == i.monitor.exclude_keywords
            dropped(a) ==
                \/ Len(a.snippet) < 50
                \/ \E k \in DOMAIN keywords :
                      \/ contains(lower(keywords[k]), lower(a.title))
                      \/ contains(lower(keywords[k]), lower(a.snippet))
        IN  (/\ i.search.kind = "ok"
             /\ Len(articles) > 0
             /\ \A c \in DOMAIN articles : dropped(articles[c]))
            => /\ o.alert = {}
               /\ o.history.success
               /\ o.history.errors = <<>>
               /\ o.history.alerts_generated = 0
               /\ o.history.articles_processed = Len(articles)
               /\ o.history.llm_input_tokens = 0
               /\ o.history.llm_output_tokens = 0

\* A search that returned an article with an excluded keyword and one with a
\* short snippet, with an analyzer ready to name the level high, ended in a
\* successful record counting two articles, no tokens and no alert
C32_Witness ==
    \E i \in eng.input, o \in eng.output :
        /\ i.search.kind = "ok"
        /\ i.search.articles = <<SpamArticle("a"), ShortArticle("b")>>
        /\ i.monitor.exclude_keywords = <<<<"s", "p", "a", "m">>>>
        /\ i.monitor.severity_threshold = "low"
        /\ i.llm.kind = "json"
        /\ i.llm.severity = {<<"h", "i", "g", "h">>}
        /\ o.alert = {}
        /\ o.history.success
        /\ o.history.articles_processed = 2
        /\ o.history.alerts_generated = 0
        /\ o.history.llm_input_tokens = 0

\* C33: scan_monitor never raises and always returns a scan record of the
\* monitor, whichever step ends the scan: a search that raises or fails, zero
\* articles, nothing left after filtering, an analyzer failure, a severity
\* below the threshold, the construction of the alert, or an exception in a
\* later step.
C33_AlwaysARecord ==
    \A i \in eng.input, o \in eng.output :
        /\ DOMAIN o = {"alert", "history"}
        /\ o.history.monitor_id = i.monitor.id
        /\ o.history.scan_timestamp = now
        /\ o.history.success \in BOOLEAN
        /\ Cardinality(o.alert) <= 1

\* A scan that passed the gate and whose alert could not be built, and whose
\* cost call then raised, still returned a record of the monitor
C33_Witness ==
    \E i \in eng.input, o \in eng.output :
        /\ i.search.kind = "ok"
        /\ i.search.articles = <<BadDateArticle("a")>>
        /\ i.llm.kind = "json"
        /\ i.llm.severity = {<<"c", "r", "i", "t", "i", "c", "a", "l">>}
        /\ i.cost = "raise"
        /\ o.alert = {}
        /\ o.history.monitor_id = i.monitor.id
        /\ ~o.history.success
        /\ o.history.errors = <<"exception">>

\* C34: scan_monitor returns an alert exactly when the record it returns has
\* alerts_generated = 1; a record with success false never has
\* alerts_generated = 1 and never comes with an alert.
C34_AlertIffCounted ==
    \A o \in eng.output :
        /\ o.alert # {} <=> o.history.alerts_generated = 1
        /\ ~o.history.success
              => o.history.alerts_generated # 1 /\ o.alert = {}

\* C35: every scan record has success false if and only if its list of
\* errors is not empty.
C35_FailedIffErrors ==
    \A o \in eng.output :
        ~o.history.success <=> Len(o.history.errors) > 0

\* A scan whose analyzer call failed returned a failed record naming the
\* failure
C35_Witness ==
    \E i \in eng.input, o \in eng.output :
        /\ i.search.kind = "ok"
        /\ i.search.articles = <<GoodArticle("a")>>
        /\ i.llm.kind = "error"
        /\ ~o.history.success
        /\ o.history.errors = <<"AI analysis failed">>
        /\ o.history.articles_processed = 1

\* C40: the severity compared against the threshold is the analyzer's
\* severity string matched to low, medium, high or critical whatever the
\* case of its letters; a string that is none of these counts as medium and
\* an assessment without a severity field counts as low.  (The scan went
\* past the gate exactly when it ended in the steps behind it: with a cost
\* total, or in the except branch.)
C40_SeverityAsParsed ==
    \A i \in eng.input, o \in eng.output :
        LET rank == [x \in SeverityLevels |->
                        IF x = "low" THEN 1
                        ELSE IF x = "medium" THEN 2
                        ELSE IF x = "high" THEN 3 ELSE 4]
            named == [x \in SeverityStrings |->
                        IF x = <<"l", "o", "w">> THEN "low"
                        ELSE IF x \in {<<"h", "i", "g", "h">>,
                                       <<"H", "I", "G", "H">>} THEN "high"
                        ELSE IF x = <<"c", "r", "i", "t", "i", "c", "a", "l">>
                             THEN "critical"
                        ELSE "medium"]
            expected == IF i.llm.severity = {} THEN "low"
                        ELSE named[CHOOSE x \in i.llm.severity : TRUE]
            passed == ~o.history.success \/ o.history.total_cost > 0
        IN  (/\ i.search.kind = "ok"
             /\ Len(filter_articles(i.search.articles, i.monitor)) > 0
             /\ i.llm.kind = "json")
            => /\ passed <=> rank[expected] >= rank[i.monitor.severity_threshold]
               /\ \A a \in o.alert : a.severity = expected

\* An assessment of HIGH in capitals met the threshold high and gave an
\* alert of severity high
C40_Witness ==
    \E i \in eng.input, o \in eng.output :
        /\ i.search.kind = "ok"
        /\ i.search.articles = <<GoodArticle("a")>>
        /\ i.llm.kind = "json"
        /\ i.llm.severity = {<<"H", "I", "G", "H">>}
        /\ i.monitor.severity_threshold = "high"
        /\ i.cost = "ok"
        /\ \E a \in o.alert : a.severity = "high"
        /\ o.history.success

----------------------------------------------------------------------------
(* Properties of the filter *)

\* C31: the list _filter_articles returns is an order-preserving sub-list of
\* the candidates in which no URL appears twice, every snippet has at least
\* 50 characters and no title or snippet contains an excluded keyword
\* whatever the case of the letters; and a candidate with a long enough
\* snippet and no excluded keyword, whose URL was not kept earlier in the
\* batch, is kept.
C31_FilterKeepsExactly ==
    \A i \in eng.input, kept \in eng.output :
        LET articles == i.articles
            keywords == i.monitor.exclude_keywords
            clean(a) ==
                \A k \in DOMAIN keywords :
                    /\ ~contains(lower(keywords[k]), lower(a.title))
                    /\ ~contains(lower(keywords[k]), lower(a.snippet))
        IN  /\ \A x, y \in DOMAIN kept : kept[x].url = kept[y].url => x = y
            /\ \A x \in DOMAIN kept :
                    Len(kept[x].snippet) >= 50 /\ clean(kept[x])
            /\ \E f \in [DOMAIN kept -> DOMAIN articles] :
                    /\ \A x, y \in DOMAIN kept : x < y => f[x] < f[y]
                    /\ \A x \in DOMAIN kept : kept[x] = articles[f[x]]
                    /\ \A c \in DOMAIN articles :
                          (/\ Len(articles[c].snippet) >= 50
                           /\ clean(articles[c])
                           /\ ~\E x \in DOMAIN kept :
                                   /\ f[x] < c
                                   /\ articles[f[x]].url = articles[c].url)
                          => \E x \in DOMAIN kept : f[x] = c

\* A batch of three with the same URL twice and a keyword in capitals was
\* filtered down to its first article
C31_Witness ==
    \E i \in eng.input, kept \in eng.output :
        /\ i.monitor.exclude_keywords = <<<<"s", "p", "a", "m">>>>
        /\ i.articles = <<GoodArticle("a"), UndatedArticle("a"), LoudArticle("c")>>
        /\ kept = <<GoodArticle("a")>>

====
